---------------------------- MODULE Spec2Model ----------------------------
(***************************************************************************)
(* Model of addVideosToMusic_Fitness.py: discovery of video clips and a    *)
(* music track, the frame-rate compatibility decision, the cached          *)
(* transcoder, the concatenation manifest, the merge command and the       *)
(* fast-path / transcode-path orchestration of main().                     *)
(*                                                                         *)
(* External tools (ffprobe, ffmpeg) are inputs: what ffprobe prints for a  *)
(* file and whether an ffmpeg invocation exits zero are drawn from small   *)
(* sets.  A Python dict is a function whose DOMAIN is its set of keys; a   *)
(* float frame rate is an exact fraction <<numerator, denominator>> in     *)
(* lowest terms, so that "60/2" and "30/1" are the same rate.              *)
(***************************************************************************)
EXTENDS Integers, Sequences, FiniteSets, TLC

VARIABLES
    pc,             \* position of main(): see PcValues
    videos,         \* main: the sorted list of discovered videos
    musicListing,   \* MUSIC_DIR.iterdir(), in the order the OS returned it
    music_file,     \* main: music_files[0], or NoFile
    probe,          \* what ffprobe prints for each file probed so far
    is_compatible,  \* main: first component of find_majority_frame_rate
    majority_fps,   \* main: second component
    idx,            \* main: index of the next video of the transcode loop
    transcoded,     \* main: the list `transcoded`
    disk,           \* TRANSCODED_DIR: output path -> what was encoded there
    manifest,       \* content of concat_list.txt (a sequence of paths)
    calls,          \* history: every get_media_info / transcode_video /
                    \* create_concatenation_list / merge_videos_with_music call
    result          \* the value returned by the last direct call (harnesses)

vars == <<pc, videos, musicListing, music_file, probe, is_compatible,
          majority_fps, idx, transcoded, disk, manifest, calls, result>>

-----------------------------------------------------------------------------
(* Bounds of the model.                                                    *)

\* Largest number of entries a listing of VIDEO_DIR returns.
MaxDirEntries == 3
\* Largest number of entries a listing of MUSIC_DIR returns.
MaxMusicEntries == 2
\* Longest list handed directly to find_majority_frame_rate.
MaxListLen == 3
\* Largest number of direct transcode_video calls in a row.
MaxTranscodeCalls == 3

-----------------------------------------------------------------------------
(* Configuration.                                                          *)

VIDEO_EXTENSIONS == {".mp4", ".mov", ".mkv", ".avi", ".m4a", ".3gp", ".3g2"}
AUDIO_EXTENSIONS == {".mp3", ".wav", ".m4a", ".aac"}
\* Seconds, in tenths: FADE_IN_SECONDS = 0.5, FADE_OUT_SECONDS = 1.0.
FADE_IN_SECONDS == 5
FADE_OUT_SECONDS == 10
\* The names main() never takes as a clip.
ExcludedNames == { [stem |-> "music", ext |-> ".mp3"],
                   [stem |-> "final_video_fast", ext |-> ".mp4"],
                   [stem |-> "final_video", ext |-> ".mp4"] }

None == <<>>
\* A path: its directory, the stem and suffix of its name and, for a file of
\* TRANSCODED_DIR, the frame-rate label transcode_video put in the name.
PathOf(dir, stem, ext) == [dir |-> dir, stem |-> stem, ext |-> ext, label |-> None]
NoFile == PathOf("", "", "")
Name(f) == [stem |-> f.stem, ext |-> f.ext]

-----------------------------------------------------------------------------
(* Path order and the discovery filters.                                   *)

\* str.lower() on the suffixes that occur.
Lower(ext) ==
    CASE ext = ".MOV" -> ".mov"
      [] ext = ".WAV" -> ".wav"
      [] ext = ".MP4" -> ".mp4"
      [] OTHER -> ext

\* Position of a string among the strings that occur, in string order.
StrRank(s) ==
    CASE s = "" -> 0
      [] s = ".mov" -> 1
      [] s = ".mp3" -> 2
      [] s = ".mp4" -> 3
      [] s = ".txt" -> 4
      [] s = ".wav" -> 5
      [] s = "a" -> 6
      [] s = "b" -> 7
      [] s = "final_video_fast" -> 8
      [] s = "notes" -> 9
      [] OTHER -> 10

\* Path.__lt__ of two entries of one directory (WindowsPath compares the
\* case-folded name): no stem that occurs is a prefix of another, so the
\* names compare as the pairs (stem, suffix).
PathLess(f, g) ==
    \/ StrRank(f.stem) < StrRank(g.stem)
    \/ f.stem = g.stem /\ StrRank(Lower(f.ext)) < StrRank(Lower(g.ext))

RECURSIVE Insert(_, _)
Insert(f, s) ==
    IF s = <<>> THEN <<f>>
    ELSE IF PathLess(f, Head(s)) THEN <<f>> \o s
    ELSE <<Head(s)>> \o Insert(f, Tail(s))

\* sorted(list of paths), stable.
RECURSIVE Sorted(_)
Sorted(s) ==
    IF s = <<>> THEN <<>>
    ELSE Insert(s[Len(s)], Sorted(SubSeq(s, 1, Len(s) - 1)))

IsVideo(f) == Lower(f.ext) \in VIDEO_EXTENSIONS /\ Name(f) \notin ExcludedNames
IsAudio(f) == Lower(f.ext) \in AUDIO_EXTENSIONS

\* [f for f in listing if <f is a clip>], in the listing's order.
RECURSIVE FilterVideo(_)
FilterVideo(s) ==
    IF s = <<>> THEN <<>>
    ELSE (IF IsVideo(Head(s)) THEN <<Head(s)>> ELSE <<>>) \o FilterVideo(Tail(s))

\* [f for f in listing if <f is an audio file>], in the listing's order.
RECURSIVE FilterAudio(_)
FilterAudio(s) ==
    IF s = <<>> THEN <<>>
    ELSE (IF IsAudio(Head(s)) THEN <<Head(s)>> ELSE <<>>) \o FilterAudio(Tail(s))

\* main(), lines 272-277.
DiscoverVideoList(listing) == Sorted(FilterVideo(listing))
\* main(), line 286.
DiscoverMusicList(listing) == FilterAudio(listing)

-----------------------------------------------------------------------------
(* Python dicts and floats.                                                *)

Get(d, k, default) == IF k \in DOMAIN d THEN d[k] ELSE default

Update(d, e) ==
    [k \in DOMAIN d \cup DOMAIN e |-> IF k \in DOMAIN e THEN e[k] ELSE d[k]]

EmptyDict == [k \in {} |-> 0]

RECURSIVE GCD(_, _)
GCD(a, b) == IF b = 0 THEN a ELSE GCD(b, a % b)

\* The float n/d, d > 0.
Rat(n, d) == <<n \div GCD(n, d), d \div GCD(n, d)>>
Zero == <<0, 1>>
\* Python truthiness of an Optional[float].
Truthy(x) == x # None /\ x # Zero

-----------------------------------------------------------------------------
(* Media Prober.                                                           *)

\* What one ffprobe run can give: the run itself (an exception of
\* subprocess.run, a nonzero exit, no output, output that is not JSON, or
\* JSON), and in the JSON the streams and format.duration.
FracField(n, d) == [kind |-> "frac", n |-> n, d |-> d]
AbsentField == [kind |-> "absent", n |-> 0, d |-> 1]
MalformedField == [kind |-> "malformed", n |-> 0, d |-> 1]

VideoStream(rate) ==
    [codec_type |-> "video", codec_name |-> "h264", r_frame_rate |-> rate]
AudioStream ==
    [codec_type |-> "audio", codec_name |-> "aac", r_frame_rate |-> FracField(0, 0)]

ProbeOutput(run, streams, duration) ==
    [run |-> run, streams |-> streams, duration |-> duration]

\* eval(stream.get("r_frame_rate", "0/1")): the value, or an exception for
\* text that is no expression and for a zero denominator.
EvalRaises(field) ==
    \/ field.kind = "malformed"
    \/ field.kind = "frac" /\ field.d = 0
EvalValue(field) ==
    IF field.kind = "frac" /\ field.d # 0 THEN Rat(field.n, field.d) ELSE Zero

\* The body of the loop over data["streams"], lines 115-125.
StreamUpdate(info, stream) ==
    IF stream.codec_type = "video"
    THEN Update(info, [video_codec |-> stream.codec_name,
                       width |-> 1920, height |-> 1080,
                       fps |-> EvalValue(stream.r_frame_rate)])
    ELSE IF stream.codec_type = "audio"
    THEN Update(info, [audio_codec |-> stream.codec_name])
    ELSE info

RECURSIVE StreamsRaise(_)
StreamsRaise(streams) ==
    /\ streams # <<>>
    /\ \/ Head(streams).codec_type = "video" /\ EvalRaises(Head(streams).r_frame_rate)
       \/ StreamsRaise(Tail(streams))

RECURSIVE FoldStreams(_, _)
FoldStreams(info, streams) ==
    IF streams = <<>> THEN info
    ELSE FoldStreams(StreamUpdate(info, Head(streams)), Tail(streams))

\* float(data.get("format", {}).get("duration", 0)) under try/except: pass.
DurationOf(field) == IF field.kind = "frac" /\ field.d # 0 THEN field.n ELSE 0

\* get_media_info: [raised, info].  raised = an exception leaves the function.
get_media_info(out) ==
    IF out.run # "ok" THEN [raised |-> FALSE, info |-> EmptyDict]
    ELSE IF StreamsRaise(out.streams) THEN [raised |-> TRUE, info |-> EmptyDict]
    ELSE [raised |-> FALSE,
          info |-> Update(FoldStreams([duration |-> 0], out.streams),
                          [duration |-> DurationOf(out.duration)])]

\* get_duration.
get_duration(out) ==
    [raised |-> get_media_info(out).raised,
     value |-> Get(get_media_info(out).info, "duration", 0)]

-----------------------------------------------------------------------------
(* Compatibility Analyzer.                                                 *)

\* frame_rate_counts[fps] = frame_rate_counts.get(fps, 0) + 1 on a dict kept
\* as the sequence of its <<key, count>> items in insertion order.
RECURSIVE Bump(_, _)
Bump(hist, fps) ==
    IF hist = <<>> THEN << <<fps, 1>> >>
    ELSE IF Head(hist)[1] = fps THEN << <<fps, Head(hist)[2] + 1>> >> \o Tail(hist)
    ELSE <<Head(hist)>> \o Bump(Tail(hist), fps)

FpsOf(out) == Get(get_media_info(out).info, "fps", Zero)

RECURSIVE Histogram(_, _, _)
Histogram(hist, files, pr) ==
    IF files = <<>> THEN hist
    ELSE Histogram(Bump(hist, FpsOf(pr[Head(files)])), Tail(files), pr)

\* MaxKey that takes the first key of the dict, whatever its count.
MaxKey_First(hist) == Head(hist)

\* max(frame_rate_counts, key=frame_rate_counts.get): the first key, in
\* iteration order, whose count no other key's count exceeds.
RECURSIVE MaxKey(_)
MaxKey(hist) ==
    IF Len(hist) = 1 THEN Head(hist)
    ELSE IF MaxKey(Tail(hist))[2] > Head(hist)[2] THEN MaxKey(Tail(hist))
    ELSE Head(hist)

AnyProbeRaises(files, pr) ==
    \E i \in 1..Len(files) : get_media_info(pr[files[i]]).raised

\* find_majority_frame_rate: [raised, is_compatible, majority].
find_majority_frame_rate(video_files, pr) ==
    IF Len(video_files) < 2
    THEN IF video_files = <<>>
         THEN [raised |-> FALSE, is_compatible |-> TRUE, majority |-> Zero]
         ELSE [raised |-> get_media_info(pr[video_files[1]]).raised,
               is_compatible |-> TRUE,
               majority |-> FpsOf(pr[video_files[1]])]
    ELSE IF AnyProbeRaises(video_files, pr)
    THEN [raised |-> TRUE, is_compatible |-> TRUE, majority |-> Zero]
    ELSE [raised |-> FALSE,
          is_compatible |-> Len(Histogram(<<>>, video_files, pr)) = 1,
          majority |-> MaxKey(Histogram(<<>>, video_files, pr))[1]]

-----------------------------------------------------------------------------
(* Process Runner.                                                         *)

\* How an ffmpeg run can end: exit 0; a nonzero exit (or a failure to start)
\* that leaves no output file; a nonzero exit that leaves a partial one.
FfmpegOutcomes == {"ok", "fail", "fail_partial"}

\* run_ffmpeg raises RuntimeError for every outcome but exit 0.
run_ffmpeg_raises(outcome) == outcome # "ok"

-----------------------------------------------------------------------------
(* Transcoder.                                                             *)

\* fps_label = f"_fps{target_fps}" if target_fps else "": the rate it names,
\* or None for the empty label.
fps_label(target_fps) == IF Truthy(target_fps) THEN target_fps ELSE None

\* TRANSCODED_DIR / f"{input_file.stem}_h264{fps_label}.mp4".
OutputPath(input_file, target_fps) ==
    [dir |-> "TRANSCODED_DIR", stem |-> input_file.stem, ext |-> ".mp4",
     label |-> fps_label(target_fps)]

\* The file an ffmpeg run leaves at `path`, if it leaves one.
DiskAfterEncode(dsk, path, input_file, outcome) ==
    IF outcome = "fail" THEN dsk
    ELSE [q \in DOMAIN dsk \cup {path} |->
            IF q = path
            THEN [src |-> input_file, complete |-> outcome = "ok"]
            ELSE dsk[q]]

\* transcode_video without the existence check: it always encodes.
transcode_video_NoCache(input_file, target_fps, dsk, outcome) ==
    [raised |-> run_ffmpeg_raises(outcome),
     path |-> OutputPath(input_file, target_fps),
     encoded |-> TRUE,
     disk |-> DiskAfterEncode(dsk, OutputPath(input_file, target_fps),
                              input_file, outcome)]

\* transcode_video: [raised, path, encoded, disk].  encoded = the external
\* encoder was invoked; outcome is how that invocation ends, if it is made.
transcode_video(input_file, target_fps, dsk, outcome) ==
    IF OutputPath(input_file, target_fps) \in DOMAIN dsk
    THEN [raised |-> FALSE, path |-> OutputPath(input_file, target_fps),
          encoded |-> FALSE, disk |-> dsk]
    ELSE [raised |-> run_ffmpeg_raises(outcome),
          path |-> OutputPath(input_file, target_fps),
          encoded |-> TRUE,
          disk |-> DiskAfterEncode(dsk, OutputPath(input_file, target_fps),
                                   input_file, outcome)]

-----------------------------------------------------------------------------
(* Concatenation List Builder.                                             *)

\* create_concatenation_list: one line "file '<path>'" per video, in order.
create_concatenation_list(video_files) ==
    [i \in 1..Len(video_files) |-> [prefix |-> "file", path |-> video_files[i]]]

-----------------------------------------------------------------------------
(* Merger.                                                                 *)

Max(a, b) == IF a > b THEN a ELSE b

NoCommand ==
    [music_input |-> FALSE, filter_complex |-> FALSE, trim |-> 0,
     fade_in |-> 0, fade_out_start |-> 0, fade_out |-> 0, shortest |-> FALSE,
     vcodec |-> "", acodec |-> "", preset |-> ""]

\* The ffmpeg command merge_videos_with_music builds, lines 220-258.
MergeCommand(has_music, music_duration, use_hardware_encoding) ==
    IF has_music /\ music_duration > 0
    THEN [music_input |-> TRUE, filter_complex |-> TRUE,
          trim |-> music_duration,
          fade_in |-> FADE_IN_SECONDS,
          fade_out_start |-> Max(0, music_duration - FADE_OUT_SECONDS),
          fade_out |-> FADE_OUT_SECONDS,
          shortest |-> FALSE,
          vcodec |-> IF use_hardware_encoding THEN "h264_nvenc" ELSE "copy",
          acodec |-> "aac",
          preset |-> IF use_hardware_encoding THEN "p5" ELSE ""]
    ELSE [music_input |-> has_music, filter_complex |-> FALSE, trim |-> 0,
          fade_in |-> 0, fade_out_start |-> 0, fade_out |-> 0,
          shortest |-> has_music,
          vcodec |-> IF use_hardware_encoding THEN "h264_nvenc" ELSE "copy",
          acodec |-> "aac",
          preset |-> IF use_hardware_encoding THEN "p5" ELSE ""]

\* merge_videos_with_music: [raised, error, command, ran].  error is the
\* exception that leaves the function: "probe" (from get_duration, before
\* any command is built) or "RuntimeError" (from run_ffmpeg).
merge_videos_with_music(has_music, music_out, use_hardware_encoding, outcome) ==
    IF has_music /\ get_duration(music_out).raised
    THEN [raised |-> TRUE, error |-> "probe", command |-> NoCommand, ran |-> FALSE]
    ELSE [raised |-> run_ffmpeg_raises(outcome),
          error |-> IF run_ffmpeg_raises(outcome) THEN "RuntimeError" ELSE "",
          command |-> MergeCommand(has_music,
                                   IF has_music THEN get_duration(music_out).value ELSE 0,
                                   use_hardware_encoding),
          ran |-> TRUE]

-----------------------------------------------------------------------------
(* Inputs: directory contents and tool outputs.                            *)

\* Entries VIDEO_DIR may hold: clips (two of them with the same stem), a
\* file that is no clip, and the output of an earlier run.
VideoDirPool ==
    { PathOf("VIDEO_DIR", "a", ".MOV"), PathOf("VIDEO_DIR", "a", ".mp4"),
      PathOf("VIDEO_DIR", "b", ".mp4"), PathOf("VIDEO_DIR", "notes", ".txt"),
      PathOf("VIDEO_DIR", "final_video_fast", ".mp4") }

\* Entries MUSIC_DIR may hold.
MusicDirPool ==
    { PathOf("MUSIC_DIR", "a", ".WAV"), PathOf("MUSIC_DIR", "b", ".mp3"),
      PathOf("MUSIC_DIR", "notes", ".txt") }

\* iterdir(): the entries of a directory, each once, in any order.
Listings(pool, maxLen) ==
    UNION { { s \in [1..n -> pool] : \A i, j \in 1..n : i # j => s[i] # s[j] }
            : n \in 0..maxLen }

Range(s) == { s[i] : i \in DOMAIN s }

\* ffprobe on a clip, as main() meets it: no usable output; a 30 fps or a
\* 60 fps video stream; a video stream whose r_frame_rate is "0/0".
VideoProbeOutputs ==
    { ProbeOutput("nonzero", <<>>, AbsentField),
      ProbeOutput("ok", <<VideoStream(FracField(30, 1)), AudioStream>>, FracField(100, 1)),
      ProbeOutput("ok", <<VideoStream(FracField(60, 1)), AudioStream>>, FracField(100, 1)),
      ProbeOutput("ok", <<VideoStream(FracField(0, 0))>>, FracField(100, 1)) }

\* ffprobe on the music file: 30.0 s of audio; no usable output; audio with
\* an attached picture stream whose r_frame_rate is "0/0".
MusicProbeOutputs ==
    { ProbeOutput("ok", <<AudioStream>>, FracField(300, 1)),
      ProbeOutput("nonzero", <<>>, AbsentField),
      ProbeOutput("ok", <<AudioStream, VideoStream(FracField(0, 0))>>, FracField(300, 1)) }

-----------------------------------------------------------------------------
(* The history of calls.                                                   *)

NoEvent ==
    [op |-> "", file |-> NoFile, target |-> None, hw |-> FALSE,
     raised |-> FALSE, error |-> "", path |-> NoFile, encoded |-> FALSE,
     command |-> NoCommand, list |-> <<>>]

ProbeEvent(f, out) ==
    [NoEvent EXCEPT !.op = "get_media_info", !.file = f,
                    !.raised = get_media_info(out).raised]

TranscodeEvent(f, target, r) ==
    [NoEvent EXCEPT !.op = "transcode_video", !.file = f, !.target = target,
                    !.raised = r.raised, !.path = r.path, !.encoded = r.encoded]

ManifestEvent(lines) ==
    [NoEvent EXCEPT !.op = "create_concatenation_list", !.list = lines]

MergeEvent(f, hw, lines, r) ==
    [NoEvent EXCEPT !.op = "merge_videos_with_music", !.file = f, !.hw = hw,
                    !.raised = r.raised, !.error = r.error,
                    !.command = r.command, !.encoded = r.ran, !.list = lines]

\* The get_media_info calls of find_majority_frame_rate, which stop at the
\* first one that raises.
RECURSIVE ProbeEvents(_, _)
ProbeEvents(files, pr) ==
    IF files = <<>> THEN <<>>
    ELSE IF get_media_info(pr[Head(files)]).raised
    THEN <<ProbeEvent(Head(files), pr[Head(files)])>>
    ELSE <<ProbeEvent(Head(files), pr[Head(files)])>> \o ProbeEvents(Tail(files), pr)

\* The calls a merge makes: get_duration(music_file), then the merge itself.
MergeEvents(f, out, hw, lines, r) ==
    <<ProbeEvent(f, out), MergeEvent(f, hw, lines, r)>>

Extend(pr, f, out) == [g \in DOMAIN pr \cup {f} |-> IF g = f THEN out ELSE pr[g]]

-----------------------------------------------------------------------------
(* Orchestrator: main().                                                   *)

PcValues ==
    { "discover_videos", "discover_music", "check", "fast_path", "transcode_path",
      "done",           \* main returned after a successful merge
      "no_videos", "no_music", "no_transcoded",   \* reported and returned
      "merge_failed",   \* the RuntimeError of the hardware merge left main
      "crashed" }       \* another exception left main

Failed == {"no_videos", "no_music", "no_transcoded", "merge_failed", "crashed"}
Ended == Failed \cup {"done"}

\* TRANSCODED_DIR when a run starts: empty, or holding what an earlier run
\* encoded from b.mp4 at its own rate.
InitialCaches ==
    { EmptyDict,
      DiskAfterEncode(EmptyDict, OutputPath(PathOf("VIDEO_DIR", "b", ".mp4"), None),
                      PathOf("VIDEO_DIR", "b", ".mp4"), "ok") }

Init ==
    /\ pc = "discover_videos"
    /\ videos = <<>>
    /\ musicListing = <<>>
    /\ music_file = NoFile
    /\ probe = EmptyDict
    /\ is_compatible = FALSE
    /\ majority_fps = Zero
    /\ idx = 1
    /\ transcoded = <<>>
    /\ disk \in InitialCaches
    /\ manifest = <<>>
    /\ calls = <<>>
    /\ result = NoEvent

\* Lines 272-283.
DiscoverVideos ==
    /\ pc = "discover_videos"
    /\ \E listing \in Listings(VideoDirPool, MaxDirEntries) :
         /\ videos' = DiscoverVideoList(listing)
         /\ pc' = IF DiscoverVideoList(listing) = <<>>
                  THEN "no_videos" ELSE "discover_music"
    /\ UNCHANGED <<musicListing, music_file, probe, is_compatible, majority_fps,
                   idx, transcoded, disk, manifest, calls, result>>

\* DiscoverMusic without the early return on an empty list.
DiscoverMusic_NoReturn ==
    /\ pc = "discover_music"
    /\ \E listing \in Listings(MusicDirPool, MaxMusicEntries) :
         /\ musicListing' = listing
         /\ pc' = "check"
         /\ music_file' = IF DiscoverMusicList(listing) = <<>>
                          THEN music_file ELSE DiscoverMusicList(listing)[1]
    /\ UNCHANGED <<videos, probe, is_compatible, majority_fps, idx, transcoded,
                   disk, manifest, calls, result>>

\* Lines 285-292.
DiscoverMusic ==
    /\ pc = "discover_music"
    /\ \E listing \in Listings(MusicDirPool, MaxMusicEntries) :
         /\ musicListing' = listing
         /\ IF DiscoverMusicList(listing) = <<>>
            THEN pc' = "no_music" /\ music_file' = music_file
            ELSE pc' = "check" /\ music_file' = DiscoverMusicList(listing)[1]
    /\ UNCHANGED <<videos, probe, is_compatible, majority_fps, idx, transcoded,
                   disk, manifest, calls, result>>

\* CheckCompatibility that ignores is_compatible and always transcodes.
CheckCompatibility_AlwaysTranscode ==
    /\ pc = "check"
    /\ \E pr \in [Range(videos) -> VideoProbeOutputs] :
         /\ probe' = pr
         /\ calls' = calls \o ProbeEvents(videos, pr)
         /\ IF find_majority_frame_rate(videos, pr).raised
            THEN /\ pc' = "crashed"
                 /\ UNCHANGED <<is_compatible, majority_fps>>
            ELSE /\ is_compatible' = find_majority_frame_rate(videos, pr).is_compatible
                 /\ majority_fps' = find_majority_frame_rate(videos, pr).majority
                 /\ pc' = "transcode_path"
    /\ idx' = 1
    /\ transcoded' = <<>>
    /\ UNCHANGED <<videos, musicListing, music_file, disk, manifest, result>>

\* Line 295 and the branch of lines 297 and 306.
CheckCompatibility ==
    /\ pc = "check"
    /\ \E pr \in [Range(videos) -> VideoProbeOutputs] :
         /\ probe' = pr
         /\ calls' = calls \o ProbeEvents(videos, pr)
         /\ IF find_majority_frame_rate(videos, pr).raised
            THEN /\ pc' = "crashed"
                 /\ UNCHANGED <<is_compatible, majority_fps>>
            ELSE /\ is_compatible' = find_majority_frame_rate(videos, pr).is_compatible
                 /\ majority_fps' = find_majority_frame_rate(videos, pr).majority
                 /\ pc' = IF find_majority_frame_rate(videos, pr).is_compatible
                          THEN "fast_path" ELSE "transcode_path"
    /\ idx' = 1
    /\ transcoded' = <<>>
    /\ UNCHANGED <<videos, musicListing, music_file, disk, manifest, result>>

\* What ffprobe prints for the music file: as before, if it was probed.
MusicOutputs ==
    IF music_file \in DOMAIN probe THEN {probe[music_file]} ELSE MusicProbeOutputs

\* FastPath with a blind repeat: a failed stream-copy merge is tried again.
FastPath_BlindRetry ==
    /\ pc = "fast_path"
    /\ \E out \in MusicOutputs, outcome \in FfmpegOutcomes :
         LET lines == create_concatenation_list(videos)
             r == merge_videos_with_music(TRUE, out, FALSE, outcome)
         IN /\ manifest' = lines
            /\ probe' = Extend(probe, music_file, out)
            /\ calls' = calls \o <<ManifestEvent(lines)>>
                              \o MergeEvents(music_file, out, FALSE, lines, r)
            /\ pc' = IF ~r.raised THEN "done"
                     ELSE IF r.error = "RuntimeError" THEN "fast_path"
                     ELSE "crashed"
    /\ UNCHANGED <<videos, musicListing, music_file, is_compatible, majority_fps,
                   idx, transcoded, disk, result>>

\* Lines 297-304: the manifest of the original files and the stream-copy
\* merge; its RuntimeError is caught and sends main to the transcode path.
FastPath ==
    /\ pc = "fast_path"
    /\ \E out \in MusicOutputs, outcome \in FfmpegOutcomes :
         LET lines == create_concatenation_list(videos)
             r == merge_videos_with_music(TRUE, out, FALSE, outcome)
         IN /\ manifest' = lines
            /\ probe' = Extend(probe, music_file, out)
            /\ calls' = calls \o <<ManifestEvent(lines)>>
                              \o MergeEvents(music_file, out, FALSE, lines, r)
            /\ IF r.raised /\ r.error = "RuntimeError"
               THEN pc' = "transcode_path" /\ is_compatible' = FALSE
               ELSE /\ pc' = IF r.raised THEN "crashed" ELSE "done"
                    /\ is_compatible' = is_compatible
    /\ idx' = 1
    /\ transcoded' = <<>>
    /\ UNCHANGED <<videos, musicListing, music_file, majority_fps, disk, result>>

\* TranscodeNext that appends the output path of a failed transcode too.
TranscodeNext_KeepsFailed ==
    /\ pc = "transcode_path"
    /\ idx <= Len(videos)
    /\ \E outcome \in FfmpegOutcomes :
         LET video == videos[idx]
             current_fps == FpsOf(probe[video])
             target == IF current_fps # majority_fps THEN majority_fps ELSE None
             r == transcode_video(video, target, disk, outcome)
         IN /\ transcoded' = Append(transcoded, r.path)
            /\ disk' = r.disk
            /\ calls' = calls \o <<ProbeEvent(video, probe[video]),
                                   TranscodeEvent(video, target, r)>>
    /\ idx' = idx + 1
    /\ UNCHANGED <<pc, videos, musicListing, music_file, probe, is_compatible,
                   majority_fps, manifest, result>>

\* Lines 309-315: one iteration of the loop over videos.
TranscodeNext ==
    /\ pc = "transcode_path"
    /\ idx <= Len(videos)
    /\ \E outcome \in FfmpegOutcomes :
         LET video == videos[idx]
             current_fps == FpsOf(probe[video])
             target == IF current_fps # majority_fps THEN majority_fps ELSE None
             r == transcode_video(video, target, disk, outcome)
         IN /\ transcoded' = IF r.raised THEN transcoded ELSE Append(transcoded, r.path)
            /\ disk' = r.disk
            /\ calls' = calls \o <<ProbeEvent(video, probe[video]),
                                   TranscodeEvent(video, target, r)>>
    /\ idx' = idx + 1
    /\ UNCHANGED <<pc, videos, musicListing, music_file, probe, is_compatible,
                   majority_fps, manifest, result>>

\* Lines 317-322: after the loop.
TranscodeFinish ==
    /\ pc = "transcode_path"
    /\ idx > Len(videos)
    /\ IF transcoded = <<>>
       THEN /\ pc' = "no_transcoded"
            /\ UNCHANGED <<probe, manifest, calls>>
       ELSE \E out \in MusicOutputs, outcome \in FfmpegOutcomes :
              LET lines == create_concatenation_list(transcoded)
                  r == merge_videos_with_music(TRUE, out, TRUE, outcome)
              IN /\ manifest' = lines
                 /\ probe' = Extend(probe, music_file, out)
                 /\ calls' = calls \o <<ManifestEvent(lines)>>
                                   \o MergeEvents(music_file, out, TRUE, lines, r)
                 /\ pc' = IF ~r.raised THEN "done"
                          ELSE IF r.error = "RuntimeError" THEN "merge_failed"
                          ELSE "crashed"
    /\ UNCHANGED <<videos, musicListing, music_file, is_compatible, majority_fps,
                   idx, transcoded, disk, result>>

Next ==
    \/ DiscoverVideos
    \/ DiscoverMusic
    \/ CheckCompatibility
    \/ FastPath
    \/ TranscodeNext
    \/ TranscodeFinish

Spec == Init /\ [][Next]_vars

-----------------------------------------------------------------------------
(* Direct calls of find_majority_frame_rate and get_media_info.            *)

ClipStems == <<"a", "b", "c", "d", "e", "f">>
ClipList(n) == [i \in 1..n |-> PathOf("VIDEO_DIR", ClipStems[i], ".mp4")]

\* ffprobe outputs, every shape get_media_info distinguishes.
AnalyzerProbeOutputs ==
    { ProbeOutput("exception", <<>>, AbsentField),
      ProbeOutput("badjson", <<>>, AbsentField),
      ProbeOutput("ok", <<VideoStream(FracField(30, 1)), AudioStream>>, FracField(100, 1)),
      ProbeOutput("ok", <<VideoStream(FracField(60, 2))>>, FracField(100, 1)),
      ProbeOutput("ok", <<VideoStream(FracField(60, 1)), AudioStream>>, AbsentField),
      ProbeOutput("ok", <<VideoStream(FracField(30000, 1001))>>, MalformedField),
      ProbeOutput("ok", <<VideoStream(AbsentField)>>, FracField(100, 1)),
      ProbeOutput("ok", <<AudioStream>>, FracField(100, 1)),
      ProbeOutput("ok", <<VideoStream(FracField(0, 0)), AudioStream>>, FracField(100, 1)),
      ProbeOutput("ok", <<VideoStream(MalformedField)>>, FracField(100, 1)) }

InitAnalyzer ==
    /\ pc = "call"
    /\ \E n \in 0..MaxListLen :
         /\ videos = ClipList(n)
         /\ probe \in [Range(ClipList(n)) -> AnalyzerProbeOutputs]
    /\ musicListing = <<>>
    /\ music_file = NoFile
    /\ is_compatible = FALSE
    /\ majority_fps = Zero
    /\ idx = 1
    /\ transcoded = <<>>
    /\ disk = EmptyDict
    /\ manifest = <<>>
    /\ calls = <<>>
    /\ result = [call |-> "", arg |-> 0, value |-> EmptyDict]

\* find_majority_frame_rate(videos).
CallFindMajority ==
    /\ pc = "call"
    /\ result' = [call |-> "find_majority_frame_rate", arg |-> 0,
                  value |-> find_majority_frame_rate(videos, probe)]
    /\ pc' = "returned"
    /\ UNCHANGED <<videos, musicListing, music_file, probe, is_compatible,
                   majority_fps, idx, transcoded, disk, manifest, calls>>

\* get_media_info(videos[i]).
CallGetMediaInfo ==
    /\ pc = "call"
    /\ \E i \in 1..Len(videos) :
         result' = [call |-> "get_media_info", arg |-> i,
                    value |-> get_media_info(probe[videos[i]])]
    /\ pc' = "returned"
    /\ UNCHANGED <<videos, musicListing, music_file, probe, is_compatible,
                   majority_fps, idx, transcoded, disk, manifest, calls>>

NextAnalyzer ==
    \/ CallFindMajority
    \/ CallGetMediaInfo

SpecAnalyzer == InitAnalyzer /\ [][NextAnalyzer]_vars

-----------------------------------------------------------------------------
(* Direct calls of transcode_video, one after the other.                   *)

TranscoderInputs ==
    { PathOf("VIDEO_DIR", "a", ".MOV"), PathOf("VIDEO_DIR", "a", ".mp4"),
      PathOf("VIDEO_DIR", "b", ".mp4") }
TranscoderTargets == { None, Zero, Rat(30, 1) }

InitTranscoder ==
    /\ pc = "call"
    /\ disk \in InitialCaches
    /\ calls = <<>>
    /\ videos = <<>>
    /\ musicListing = <<>>
    /\ music_file = NoFile
    /\ probe = EmptyDict
    /\ is_compatible = FALSE
    /\ majority_fps = Zero
    /\ idx = 1
    /\ transcoded = <<>>
    /\ manifest = <<>>
    /\ result = NoEvent

\* transcode_video(input_file, target_fps).
CallTranscode ==
    /\ pc = "call"
    /\ Len(calls) < MaxTranscodeCalls
    /\ \E input_file \in TranscoderInputs, target_fps \in TranscoderTargets,
          outcome \in FfmpegOutcomes :
         LET r == transcode_video(input_file, target_fps, disk, outcome)
         IN /\ disk' = r.disk
            /\ result' = TranscodeEvent(input_file, target_fps, r)
            /\ calls' = Append(calls, TranscodeEvent(input_file, target_fps, r))
    /\ UNCHANGED <<pc, videos, musicListing, music_file, probe, is_compatible,
                   majority_fps, idx, transcoded, manifest>>

NextTranscoder == CallTranscode

SpecTranscoder == InitTranscoder /\ [][NextTranscoder]_vars

-----------------------------------------------------------------------------
(* Properties of main().                                                   *)

Merges == SelectSeq(calls, LAMBDA e : e.op = "merge_videos_with_music")
Transcodes == SelectSeq(calls, LAMBDA e : e.op = "transcode_video")
SucceededTranscodes == SelectSeq(Transcodes, LAMBDA e : ~e.raised)
FilesOf(events) == [i \in 1..Len(events) |-> events[i].file]
PathsOf(events) == [i \in 1..Len(events) |-> events[i].path]

\* The compatibility check has been made and every clip's probe returned.
Probed ==
    /\ pc \notin {"discover_videos", "discover_music", "check"}
    /\ videos # <<>>
    /\ music_file # NoFile
    /\ \A i \in 1..Len(videos) : ~get_media_info(probe[videos[i]]).raised

SameRate ==
    \A i, j \in 1..Len(videos) : FpsOf(probe[videos[i]]) = FpsOf(probe[videos[j]])

StreamCopyFailed ==
    \E i \in 1..Len(Merges) :
        ~Merges[i].hw /\ Merges[i].raised /\ Merges[i].error = "RuntimeError"
StreamCopySucceeded ==
    \E i \in 1..Len(Merges) : ~Merges[i].hw /\ ~Merges[i].raised
HardwareMergeFailed ==
    \E i \in 1..Len(Merges) :
        Merges[i].hw /\ Merges[i].raised /\ Merges[i].error = "RuntimeError"

\* C1: the Merger is invoked at most twice in a run, at most once in
\* stream-copy mode and then at most once in hardware mode; after a failed
\* stream-copy merge main is in the transcode path, which it goes through
\* once (each clip handed to transcode_video once, one hardware merge at
\* most); a failed hardware merge is the last call of the run, which has
\* then ended as failed.
C1_OneFallback ==
    /\ Len(Merges) <= 2
    /\ Len(Merges) = 2 =>
         /\ ~Merges[1].hw /\ Merges[1].raised /\ Merges[1].error = "RuntimeError"
         /\ Merges[2].hw
    /\ StreamCopyFailed =>
         /\ pc \in {"transcode_path", "done", "no_transcoded", "merge_failed", "crashed"}
         /\ FilesOf(Transcodes) = SubSeq(videos, 1, Len(Transcodes))
         /\ pc \in Ended =>
              /\ Len(Transcodes) = Len(videos)
              /\ Len(Merges) = IF transcoded = <<>> THEN 1 ELSE 2
    /\ HardwareMergeFailed =>
         /\ pc = "merge_failed"
         /\ calls[Len(calls)].op = "merge_videos_with_music"
         /\ calls[Len(calls)].hw /\ calls[Len(calls)].raised
    /\ pc = "merge_failed" => HardwareMergeFailed

\* A run whose stream-copy merge failed, fell back, and failed again.
C1_Witness ==
    /\ pc = "merge_failed"
    /\ Len(Merges) = 2
    /\ StreamCopyFailed
    /\ Len(Transcodes) = Len(videos)

\* C2: with clips and music discovered and one frame rate among the clips,
\* main takes the fast path (the first thing it calls after the check is the
\* manifest of the original files and the stream-copy merge), and if that
\* merge succeeds the run is done with one Merger call, the manifest of the
\* original files on disk, and no transcode_video call.
C2_FastPath ==
    (Probed /\ SameRate) =>
        /\ pc # "fast_path" =>
             /\ Len(Merges) >= 1
             /\ ~Merges[1].hw
             /\ Merges[1].list = create_concatenation_list(videos)
             /\ Transcodes # <<>> => StreamCopyFailed
        /\ StreamCopySucceeded =>
             /\ pc = "done"
             /\ Len(Merges) = 1
             /\ Merges[1].encoded
             /\ Transcodes = <<>>
             /\ manifest = create_concatenation_list(videos)
             /\ \A i \in 1..Len(manifest) : manifest[i].path.dir = "VIDEO_DIR"

\* Three clips at one rate, merged by stream copy without a filter.
C2_Witness ==
    /\ pc = "done"
    /\ Probed /\ SameRate
    /\ Len(videos) = 3
    /\ StreamCopySucceeded
    /\ ~Merges[1].command.filter_complex

TwoRates ==
    \E i, j \in 1..Len(videos) : FpsOf(probe[videos[i]]) # FpsOf(probe[videos[j]])

\* C3: with two distinct frame rates among the clips, main never calls the
\* stream-copy merge; it hands the clips to transcode_video in sorted order,
\* each once, going on after a failure; `transcoded`, and the manifest the
\* Merger gets, are the outputs of the transcodes that returned, in order,
\* all in TRANSCODED_DIR; the hardware merge is called once if a transcode
\* returned, and not at all (the run failing) if none did.
C3_TranscodePath ==
    (Probed /\ TwoRates) =>
        /\ \A i \in 1..Len(Merges) : Merges[i].hw
        /\ \A i, j \in 1..Len(videos) : i < j => PathLess(videos[i], videos[j])
        /\ FilesOf(Transcodes) = SubSeq(videos, 1, Len(Transcodes))
        /\ transcoded = PathsOf(SucceededTranscodes)
        /\ \A i \in 1..Len(Merges) :
             /\ Merges[i].list = create_concatenation_list(PathsOf(SucceededTranscodes))
             /\ \A k \in 1..Len(Merges[i].list) :
                  Merges[i].list[k].path.dir = "TRANSCODED_DIR"
        /\ Len(Merges) <= 1
        /\ Merges # <<>> => Len(Transcodes) = Len(videos)
        /\ pc \in Ended =>
             /\ Len(Transcodes) = Len(videos)
             /\ Len(Merges) = IF SucceededTranscodes = <<>> THEN 0 ELSE 1
             /\ SucceededTranscodes = <<>> => pc = "no_transcoded"

\* Three clips at two rates: the first transcode fails, a later one
\* succeeds, and the hardware merge of the survivors succeeds.
C3_Witness ==
    /\ pc = "done"
    /\ Probed /\ TwoRates
    /\ Len(videos) = 3
    /\ Transcodes[1].raised
    /\ Len(SucceededTranscodes) = 2
    /\ Len(Merges) = 1

\* C4: once discovery has found no clip, or clips but no music file, main
\* has stopped with the discovery failure and has made no call: no probe,
\* no transcode, no manifest, no merge, and nothing written.
C4_DiscoveryFailure ==
    /\ (pc # "discover_videos" /\ videos = <<>>) =>
         (pc = "no_videos" /\ calls = <<>> /\ manifest = <<>> /\ disk \in InitialCaches)
    /\ (pc \notin {"discover_videos", "discover_music"} /\ videos # <<>>
          /\ DiscoverMusicList(musicListing) = <<>>) =>
         (pc = "no_music" /\ calls = <<>> /\ manifest = <<>> /\ disk \in InitialCaches)
    /\ pc \in {"no_videos", "no_music"} => calls = <<>>

\* Clips were found, and the music directory held only a file that is no
\* audio file.
C4_Witness ==
    /\ pc = "no_music"
    /\ Len(videos) = 2
    /\ Len(musicListing) = 1

\* C5: the music file main picks, and passes to the Merger, is the first by
\* sort order of the audio files of the music directory, whatever the order
\* of the listing.
C5_FirstBySortOrder ==
    /\ music_file # NoFile => music_file = Sorted(DiscoverMusicList(musicListing))[1]
    /\ \A i \in 1..Len(Merges) :
         Merges[i].file = Sorted(DiscoverMusicList(musicListing))[1]

\* C9: a merge command that carries the trim and fade filter chain never
\* has the stream-copy video codec, in either mode.
C9_FilterIsReencoded ==
    \A i \in 1..Len(Merges) :
        (Merges[i].encoded /\ Merges[i].command.filter_complex)
            => Merges[i].command.vcodec # "copy"

\* C10: two transcode_video calls of a run with different input files or
\* different target rates derive different output paths; a call that finds
\* its output on disk finds a file encoded from its own input; and no
\* manifest lists one transcoded file twice.
C10_CacheKeyedByInput ==
    /\ \A i, j \in 1..Len(Transcodes) :
         (Transcodes[i].file # Transcodes[j].file
            \/ Transcodes[i].target # Transcodes[j].target)
           => Transcodes[i].path # Transcodes[j].path
    /\ \A i \in 1..Len(Transcodes) :
         (~Transcodes[i].encoded /\ Transcodes[i].path \in DOMAIN disk)
           => disk[Transcodes[i].path].src = Transcodes[i].file
    /\ \A i \in 1..Len(Merges) :
         \A k, l \in 1..Len(Merges[i].list) :
           k # l => Merges[i].list[k] # Merges[i].list[l]

-----------------------------------------------------------------------------
(* Properties of the direct calls.                                         *)

\* C6: get_media_info returns for every ffprobe outcome, and so does
\* find_majority_frame_rate; a run of ffprobe that gave nothing usable
\* yields the empty record, whose duration and frame rate read as zero.
C6_NeverRaises ==
    pc = "returned" =>
        /\ ~result.value.raised
        /\ (result.call = "get_media_info" /\ probe[videos[result.arg]].run # "ok") =>
             /\ result.value.info = EmptyDict
             /\ Get(result.value.info, "duration", 0) = 0
             /\ Get(result.value.info, "fps", Zero) = Zero

RateAt(i) == FpsOf(probe[videos[i]])
RatesOfList == { RateAt(i) : i \in 1..Len(videos) }
CountOf(rate) == Cardinality({ i \in 1..Len(videos) : RateAt(i) = rate })

\* C7: when find_majority_frame_rate returns, is_compatible is true iff the
\* list has fewer than 2 files or one distinct rate, and majority is 0 for
\* the empty list and otherwise a rate of the list whose count no other
\* rate's count exceeds (hence the single rate, the only file's rate, or the
\* strict majority, where there is one).
C7_Majority ==
    (pc = "returned" /\ result.call = "find_majority_frame_rate"
       /\ ~result.value.raised) =>
        /\ result.value.is_compatible
             <=> (Len(videos) < 2 \/ Cardinality(RatesOfList) = 1)
        /\ videos = <<>> => result.value.majority = Zero
        /\ videos # <<>> =>
             /\ result.value.majority \in RatesOfList
             /\ \A rate \in RatesOfList : CountOf(rate) <= CountOf(result.value.majority)

\* Three files at two rates, the strict majority not being the first
\* file's rate.
C7_Witness ==
    /\ pc = "returned"
    /\ result.call = "find_majority_frame_rate"
    /\ ~result.value.raised
    /\ Len(videos) = 3
    /\ ~result.value.is_compatible
    /\ CountOf(result.value.majority) = 2
    /\ RateAt(1) # result.value.majority

SameArguments(i) ==
    /\ calls[i].file = calls[i + 1].file
    /\ calls[i].target = calls[i + 1].target

\* C8, as stated: of two successive transcode_video calls with the same
\* input and target rate, the second does not invoke the encoder and
\* returns the path the first one derived.
C8_SecondCallCached ==
    \A i \in 1..(Len(calls) - 1) :
        SameArguments(i) =>
            /\ ~calls[i + 1].encoded
            /\ ~calls[i + 1].raised
            /\ calls[i + 1].path = calls[i].path

\* C8, amended: the same, when the first call returned (its encode exited
\* zero, or it found its output on disk).
C8_SecondCallCachedAfterSuccess ==
    \A i \in 1..(Len(calls) - 1) :
        (SameArguments(i) /\ ~calls[i].raised) =>
            /\ ~calls[i + 1].encoded
            /\ ~calls[i + 1].raised
            /\ calls[i + 1].path = calls[i].path
            /\ calls[i + 1].path \in DOMAIN disk

\* The first call encoded at 30 fps, the second found the output.
C8_Witness ==
    /\ Len(calls) = 2
    /\ SameArguments(1)
    /\ calls[1].target = Rat(30, 1)
    /\ calls[1].encoded /\ ~calls[1].raised
    /\ ~calls[2].encoded /\ ~calls[2].raised
    /\ calls[2].path = calls[1].path

====
